---- MODULE Spec2Model ----
(***************************************************************************)
(* The dependency-injection containers of examples/spring_di_demo:         *)
(*   OptimizedApplicationContext (optimized_spring_di.py), specification   *)
(*   Spec, and ApplicationContext (spring_di.py), specification SpecBasic. *)
(* A behaviour starts after the decorators of one program (a "world": a    *)
(* set of class definitions) have run, and then lets threads call the      *)
(* container's class methods.                                              *)
(***************************************************************************)
EXTENDS Integers, Sequences, FiniteSets, TLC

VARIABLES
    world,              \* the class definitions of the running program
    component_configs,  \* the container's _component_configs (ordered dict)
    dependency_cache,   \* OptimizedApplicationContext._dependency_cache (ordered dict)
    lru,                \* keys held by the lru_cache of _analyze_dependencies
    metrics,            \* OptimizedApplicationContext._metrics: class -> creation_count
    lock,               \* the container's _lock (RLock in Spec, Lock in SpecBasic)
    stack,              \* per thread: the frames of the call in progress
    objs,               \* every instance constructed so far; an instance is its index
    ctor_calls,         \* per class: constructor bodies entered so far
    log,                \* the finished top-level calls, in order of completion
    calls               \* top-level calls started so far

vars == <<world, component_configs, dependency_cache, lru, metrics, lock, stack,
          objs, ctor_calls, log, calls>>

\* ------------------------------------------------------------------ bounds

\* top-level calls in one behaviour
MaxCalls == 3

\* the interpreter's limit on nested get_bean frames (sys.getrecursionlimit)
RecursionLimit == 6

Threads == {"t1", "t2"}

\* ------------------------------------------------------------ the programs

SINGLETON == "singleton"
PROTOTYPE == "prototype"

None == 0

\* a forward reference: the annotation is a str, not a class
FwdB == "'B'"

Classes == {"A", "B", "C", "D", "E", "Base", "U"}

Annotations == Classes \cup {FwdB}

NoParams == [c \in Classes |-> <<>>]

NoBases == [c \in Classes |-> {}]

Scopes == {SINGLETON, PROTOTYPE}

\* every (class, scope) registration of a set of classes
AnyScope(cs) == cs \X Scopes

\* One record per program: defined = its classes; decorated = the decorator
\* calls in definition order; params = the annotated constructor parameters;
\* bases = proper ancestors; raises = classes whose constructor may raise;
\* falsy = classes whose instances are false in a boolean context;
\* primary = classes registered with primary=True; ops = the other class
\* methods its threads call; requests = the types its threads ask get_bean
\* for; registers = the register_component calls its threads make at run time.
Worlds ==
    [ chain |->
        [ defined |-> {"A", "B", "C", "D", "E"},
          decorated |-> << <<"E", SINGLETON>>, <<"D", SINGLETON>>, <<"C", SINGLETON>>,
                           <<"B", SINGLETON>>, <<"A", SINGLETON>> >>,
          params |-> [NoParams EXCEPT !["A"] = <<"B">>, !["B"] = <<"C">>,
                                      !["C"] = <<"D">>, !["D"] = <<"E">>],
          bases |-> NoBases, raises |-> {}, falsy |-> {},
          primary |-> {}, ops |-> {},
          requests |-> {"A", "C"}, registers |-> {} ],
      cycle |->
        [ defined |-> {"A", "B"},
          decorated |-> << <<"A", SINGLETON>>, <<"B", SINGLETON>> >>,
          params |-> [NoParams EXCEPT !["A"] = <<"B">>, !["B"] = <<"A">>],
          bases |-> NoBases, raises |-> {}, falsy |-> {},
          primary |-> {}, ops |-> {},
          requests |-> {"A", "B"}, registers |-> {<<"A", PROTOTYPE>>} ],
      fwdcycle |->
        [ defined |-> {"A", "B"},
          decorated |-> << <<"A", SINGLETON>>, <<"B", SINGLETON>> >>,
          params |-> [NoParams EXCEPT !["A"] = <<FwdB>>, !["B"] = <<"A">>],
          bases |-> NoBases, raises |-> {}, falsy |-> {},
          primary |-> {}, ops |-> {"validate_configuration"},
          requests |-> {"A", "B"}, registers |-> {} ],
      capcycle |->
        [ defined |-> {"A", "Base"},
          decorated |-> << <<"A", SINGLETON>> >>,
          params |-> [NoParams EXCEPT !["A"] = <<"Base">>],
          bases |-> [NoBases EXCEPT !["A"] = {"Base"}], raises |-> {}, falsy |-> {},
          primary |-> {}, ops |-> {},
          requests |-> {"A", "Base"}, registers |-> {<<"Base", SINGLETON>>} ],
      missing |->
        [ defined |-> {"A", "B", "U"},
          decorated |-> << <<"A", SINGLETON>> >>,
          params |-> [NoParams EXCEPT !["A"] = <<"U">>],
          bases |-> [NoBases EXCEPT !["B"] = {"U"}], raises |-> {}, falsy |-> {},
          primary |-> {}, ops |-> {"validate_configuration"},
          requests |-> {"A"}, registers |-> {<<"B", SINGLETON>>} ],
      faulty |->
        [ defined |-> {"A", "B"},
          decorated |-> << <<"B", SINGLETON>>, <<"A", SINGLETON>> >>,
          params |-> [NoParams EXCEPT !["A"] = <<"B">>],
          bases |-> NoBases, raises |-> {"A"}, falsy |-> {},
          primary |-> {}, ops |-> {},
          requests |-> {"A", "B"}, registers |-> {<<"B", PROTOTYPE>>} ],
      proto |->
        [ defined |-> {"A", "B"},
          decorated |-> << <<"B", PROTOTYPE>>, <<"A", SINGLETON>> >>,
          params |-> [NoParams EXCEPT !["A"] = <<"B">>],
          bases |-> NoBases, raises |-> {}, falsy |-> {},
          primary |-> {}, ops |-> {},
          requests |-> {"A", "B"}, registers |-> AnyScope({"A", "B"}) ],
      falsy |->
        [ defined |-> {"A", "B"},
          decorated |-> << <<"B", SINGLETON>>, <<"A", SINGLETON>> >>,
          params |-> [NoParams EXCEPT !["A"] = <<"B">>],
          bases |-> NoBases, raises |-> {}, falsy |-> {"B"},
          primary |-> {}, ops |-> {},
          requests |-> {"A", "B"}, registers |-> AnyScope({"B"}) ],
      flaky |->
        [ defined |-> {"A"},
          decorated |-> << <<"A", SINGLETON>> >>,
          params |-> NoParams,
          bases |-> NoBases, raises |-> {"A"}, falsy |-> {},
          primary |-> {}, ops |-> {},
          requests |-> {"A"}, registers |-> AnyScope({"A"}) ],
      dangling |->
        [ defined |-> {"A", "B", "C", "U"},
          decorated |-> << <<"A", SINGLETON>>, <<"B", SINGLETON>>, <<"C", SINGLETON>> >>,
          params |-> [NoParams EXCEPT !["A"] = <<"B">>, !["B"] = <<"A">>,
                                      !["C"] = <<"U">>],
          bases |-> NoBases, raises |-> {}, falsy |-> {},
          primary |-> {}, ops |-> {"validate_configuration", "get_metrics"},
          requests |-> {}, registers |-> {} ],
      firstimpl |->
        [ defined |-> {"Base", "A", "B", "C"},
          decorated |-> << <<"A", SINGLETON>>, <<"B", SINGLETON>> >>,
          params |-> NoParams,
          bases |-> [NoBases EXCEPT !["A"] = {"Base"}, !["B"] = {"Base"},
                                     !["C"] = {"Base"}],
          raises |-> {}, falsy |-> {},
          primary |-> {}, ops |-> {},
          requests |-> {"Base"}, registers |-> {<<"A", SINGLETON>>, <<"C", SINGLETON>>} ],
      primary |->
        [ defined |-> {"Base", "A", "B"},
          decorated |-> << <<"A", SINGLETON>>, <<"B", SINGLETON>> >>,
          params |-> NoParams,
          bases |-> [NoBases EXCEPT !["A"] = {"Base"}, !["B"] = {"Base"}],
          raises |-> {}, falsy |-> {},
          primary |-> {"B"}, ops |-> {},
          requests |-> {"Base"}, registers |-> {<<"B", SINGLETON>>} ],
      primaries |->
        [ defined |-> {"Base", "A", "B"},
          decorated |-> << <<"A", SINGLETON>>, <<"B", SINGLETON>> >>,
          params |-> NoParams,
          bases |-> [NoBases EXCEPT !["A"] = {"Base"}, !["B"] = {"Base"}],
          raises |-> {}, falsy |-> {},
          primary |-> {"A", "B"}, ops |-> {},
          requests |-> {"Base"}, registers |-> {<<"A", SINGLETON>>} ],
      diamond |->
        [ defined |-> {"A", "B", "C", "D"},
          decorated |-> << <<"D", SINGLETON>>, <<"B", SINGLETON>>, <<"C", SINGLETON>>,
                           <<"A", SINGLETON>> >>,
          params |-> [NoParams EXCEPT !["A"] = <<"B", "C">>, !["B"] = <<"D">>,
                                      !["C"] = <<"D">>],
          bases |-> NoBases, raises |-> {}, falsy |-> {},
          primary |-> {}, ops |-> {"validate_configuration"},
          requests |-> {}, registers |-> {} ],
      unrelated |->
        [ defined |-> {"A", "B"},
          decorated |-> << <<"A", PROTOTYPE>>, <<"B", SINGLETON>> >>,
          params |-> NoParams,
          bases |-> NoBases, raises |-> {}, falsy |-> {},
          primary |-> {}, ops |-> {"get_metrics"},
          requests |-> {"A", "B"}, registers |-> {} ],
      reregister |->
        [ defined |-> {"A"},
          decorated |-> << <<"A", SINGLETON>> >>,
          params |-> NoParams,
          bases |-> NoBases, raises |-> {}, falsy |-> {},
          primary |-> {}, ops |-> {},
          requests |-> {"A"},
          registers |-> {<<"A", SINGLETON, FALSE>>, <<"A", SINGLETON, TRUE>>,
                         <<"A", PROTOTYPE, FALSE>>} ],
      diamonds |->
        [ defined |-> {"A", "B", "C", "D", "E"},
          decorated |-> << <<"D", SINGLETON>>, <<"E", PROTOTYPE>>, <<"B", SINGLETON>>,
                           <<"C", SINGLETON>>, <<"A", SINGLETON>> >>,
          params |-> [NoParams EXCEPT !["A"] = <<"B", "C">>, !["B"] = <<"D", "E">>,
                                      !["C"] = <<"D", "E">>],
          bases |-> NoBases, raises |-> {}, falsy |-> {},
          primary |-> {}, ops |-> {},
          requests |-> {"A"}, registers |-> {} ],
      shared |->
        [ defined |-> {"Base", "D", "A"},
          decorated |-> << <<"D", SINGLETON>>, <<"A", SINGLETON>> >>,
          params |-> [NoParams EXCEPT !["A"] = <<"D", "Base">>],
          bases |-> [NoBases EXCEPT !["D"] = {"Base"}],
          raises |-> {}, falsy |-> {},
          primary |-> {}, ops |-> {},
          requests |-> {"A", "D", "Base"}, registers |-> {} ],
      partial |->
        [ defined |-> {"A", "B", "U"},
          decorated |-> << <<"B", SINGLETON>>, <<"A", SINGLETON>> >>,
          params |-> [NoParams EXCEPT !["A"] = <<"B", "U">>],
          bases |-> NoBases, raises |-> {}, falsy |-> {},
          primary |-> {}, ops |-> {},
          requests |-> {"A"}, registers |-> {} ] ]

WorldNames == DOMAIN Worlds

W == Worlds[world]

\* the primary argument of a registration on the menu: the flag its class
\* carries in the program, unless the menu entry gives one of its own
PrimaryArg(r) == IF Len(r) = 3 THEN r[3] ELSE r[1] \in W.primary

\* ------------------------------------------------------- ordered dicts

\* A Python dict is a sequence of [key, val] records in insertion order.
DictHas(d, k) == \E i \in 1..Len(d) : d[i].key = k

DictIdx(d, k) == CHOOSE i \in 1..Len(d) : d[i].key = k

DictGet(d, k) == d[DictIdx(d, k)].val

DictGetOr(d, k, dflt) == IF DictHas(d, k) THEN DictGet(d, k) ELSE dflt

\* DictPut as it would be if the key were deleted and inserted again
DictPutLast(d, k, v) ==
    Append(SelectSeq(d, LAMBDA e : e.key # k), [key |-> k, val |-> v])

\* d[k] = v: an existing key keeps its position, a new key is appended
DictPut(d, k, v) ==
    IF DictHas(d, k) THEN [d EXCEPT ![DictIdx(d, k)].val = v]
    ELSE Append(d, [key |-> k, val |-> v])

DictKeys(d) == [i \in 1..Len(d) |-> d[i].key]

Range(s) == {s[i] : i \in 1..Len(s)}

\* ------------------------------------------------ OptimizedApplicationContext

\* the truth value Python gives config['instance'] (None is 0)
Truthy(inst) == inst # None /\ objs[inst].cls \notin W.falsy

IsClass(x) == x \in Classes

\* issubclass(component_type, interface_type) and component_type != interface_type
IsImplementation(component_type, interface_type) ==
    interface_type \in W.bases[component_type]

\* _find_implementations: the registered proper subclasses, in registry order
FindImplementations(interface_type) ==
    SelectSeq(DictKeys(component_configs),
              LAMBDA c : IsImplementation(c, interface_type))

\* the dict register_component stores for a type
NewConfig(scope, primary) ==
    [scope |-> scope, primary |-> primary, instance |-> None]

\* inspect.signature: the annotated constructor parameters, in order
AnalyzeSignature(component_type) == W.params[component_type]

\* _analyze_dependencies behind lru_cache: a hit returns the memoized dict and
\* touches nothing; a miss runs the body, which fills _dependency_cache.
AnalyzedCache(cache, memo, component_type) ==
    IF component_type \in memo \/ DictHas(cache, component_type) THEN cache
    ELSE DictPut(cache, component_type, AnalyzeSignature(component_type))

\* Registered as it would be if a type that is registered kept its descriptor
RegisteredOnce(cfgs, cache, memo, component_type, scope, primary) ==
    [ configs |-> IF DictHas(cfgs, component_type) THEN cfgs
                  ELSE DictPut(cfgs, component_type, NewConfig(scope, primary)),
      cache |-> AnalyzedCache(cache, memo, component_type),
      memo |-> memo \cup {component_type} ]

\* register_component applied to the three tables it writes
Registered(cfgs, cache, memo, component_type, scope, primary) ==
    [ configs |-> DictPut(cfgs, component_type, NewConfig(scope, primary)),
      cache |-> AnalyzedCache(cache, memo, component_type),
      memo |-> memo \cup {component_type} ]

\* the tables after the decorators of a program have run, in definition order
RECURSIVE Decorated(_)
Decorated(n) ==
    IF n = 0 THEN [configs |-> <<>>, cache |-> <<>>, memo |-> {}]
    ELSE LET prev == Decorated(n - 1)
             d == W.decorated[n]
         IN Registered(prev.configs, prev.cache, prev.memo, d[1], d[2],
                       d[1] \in W.primary)

Free == [owner |-> "none", count |-> 0]

\* a frame of get_bean; since = the instances that existed when it was called.
\* A frame of validate_configuration uses it, used and issues: the position of
\* the dict iterator of its running for loop, the size the dict had when the
\* loop began, and the issues list; its since = the calls that had finished
\* when it was called. A frame of AutowiredDescriptor.__get__ uses instance:
\* the object whose field is read.
Frame(bean_type, path) ==
    [ fn |-> "get_bean", bean_type |-> bean_type, path |-> path, key |-> "none",
      deps |-> <<>>, resolved |-> <<>>, pc |-> "lock", since |-> Len(objs),
      it |-> 0, used |-> 0, issues |-> <<>>, instance |-> None ]

Top(t) == stack[t][Len(stack[t])]

Idle(t) == stack[t] = <<>>

\* a finished top-level call: what was called, how it ended and what it
\* returned (value for get_bean, result for validate_configuration and
\* get_metrics); seen = the counts that the records of a map returned by
\* get_metrics held when it was returned
Event(op, arg, outcome) ==
    [ op |-> op, arg |-> arg, outcome |-> outcome, value |-> None,
      key |-> "none", scope |-> "none", primary |-> FALSE, cycle |-> <<>>,
      named |-> "none", instance |-> None,
      since |-> 0, result |-> <<>>, seen |-> <<>> ]

Init ==
    /\ world \in WorldNames
    /\ component_configs = Decorated(Len(W.decorated)).configs
    /\ dependency_cache = Decorated(Len(W.decorated)).cache
    /\ lru = Decorated(Len(W.decorated)).memo
    /\ metrics = <<>>
    /\ lock = Free
    /\ stack = [t \in Threads |-> <<>>]
    /\ objs = <<>>
    /\ ctor_calls = [c \in Classes |-> 0]
    /\ log = <<>>
    /\ calls = 0

\* ---- the end of a call

\* Raise as it would be if the lock were taken with acquire() and released
\* only on the normal path
RaiseHoldingLock(t, ev) ==
    /\ stack' = [stack EXCEPT ![t] = <<>>]
    /\ lock' = lock
    /\ log' = Append(log, ev)

\* an exception leaves every frame of the thread: each get_bean frame's
\* "with cls._lock" releases its level on the way out
Raise(t, ev) ==
    /\ stack' = [stack EXCEPT ![t] = <<>>]
    /\ lock' = IF lock.owner = t THEN Free ELSE lock
    /\ log' = Append(log, ev)

\* the caller's frame once the callee has returned inst to it
Resume(caller, inst) ==
    LET r == Append(caller.resolved, inst)
    IN [caller EXCEPT !.resolved = r,
                      !.pc = IF caller.fn = "autowired_get" THEN "setattr"
                             ELSE IF Len(r) = Len(caller.deps) THEN "ctor"
                             ELSE "deps"]

\* the lock after one "with cls._lock" block of its owner is left
Released(l) == IF l.count = 1 THEN Free ELSE [l EXCEPT !.count = l.count - 1]

\* get_bean returns inst: to the calling _create_instance_optimized, or to the
\* thread's caller when the frame is the top-level one
Return(t, inst, key, scope) ==
    LET n == Len(stack[t])
        f == stack[t][n]
    IN /\ lock' = Released(lock)
       /\ IF n = 1
          THEN /\ stack' = [stack EXCEPT ![t] = <<>>]
               /\ log' = Append(log, [Event("get_bean", f.bean_type, "ok")
                                        EXCEPT !.value = inst, !.key = key,
                                               !.scope = scope,
                                               !.since = stack[t][1].since])
          ELSE /\ stack' = [stack EXCEPT ![t] =
                              Append(SubSeq(stack[t], 1, n - 2),
                                     Resume(stack[t][n - 1], inst))]
               /\ log' = log

\* ---- register_component (lines 50-60)

register_component(t, component_type, scope, primary) ==
    /\ Idle(t)
    /\ calls < MaxCalls
    /\ lock.owner = "none"
    /\ LET r == Registered(component_configs, dependency_cache, lru,
                           component_type, scope, primary)
       IN /\ component_configs' = r.configs
          /\ dependency_cache' = r.cache
          /\ lru' = r.memo
    /\ calls' = calls + 1
    /\ log' = Append(log, [Event("register_component", component_type, "ok")
                             EXCEPT !.scope = scope, !.primary = primary])
    /\ UNCHANGED <<world, metrics, lock, stack, objs, ctor_calls>>

\* ---- get_bean (lines 82-123)

\* a thread calls get_bean(bean_type) with no creation path
get_bean_call(t, bean_type) ==
    /\ Idle(t)
    /\ calls < MaxCalls
    /\ stack' = [stack EXCEPT ![t] = <<Frame(bean_type, <<>>)>>]
    /\ calls' = calls + 1
    /\ UNCHANGED <<world, component_configs, dependency_cache, lru, metrics, lock,
                   objs, ctor_calls, log>>

\* CanAcquire as it would be if get_bean did not take the lock
CanAcquireUnlocked(t) == TRUE

\* "with cls._lock": an RLock is granted when free or owned by the caller
CanAcquire(t) == lock.owner \in {"none", t}

\* get_bean_lock as it would be with a check for a published singleton ahead
\* of "with cls._lock"
get_bean_lock_fast_path(t) ==
    /\ ~Idle(t)
    /\ Top(t).fn = "get_bean"
    /\ Top(t).pc = "lock"
    /\ LET config == DictGetOr(component_configs, Top(t).bean_type,
                               NewConfig(PROTOTYPE, FALSE))
       IN IF config.scope = SINGLETON /\ Truthy(config.instance)
          THEN lock' = lock
          ELSE CanAcquire(t) /\ lock' = [owner |-> t, count |-> lock.count + 1]
    /\ stack' = [stack EXCEPT ![t][Len(stack[t])].pc = "body"]
    /\ UNCHANGED <<world, component_configs, dependency_cache, lru, metrics,
                   objs, ctor_calls, log, calls>>

get_bean_lock(t) ==
    /\ ~Idle(t)
    /\ Top(t).fn = "get_bean"
    /\ Top(t).pc = "lock"
    /\ CanAcquire(t)
    /\ lock' = [owner |-> t, count |-> lock.count + 1]
    /\ stack' = [stack EXCEPT ![t][Len(stack[t])].pc = "body"]
    /\ UNCHANGED <<world, component_configs, dependency_cache, lru, metrics,
                   objs, ctor_calls, log, calls>>

\* OnCreationPath as it would be if get_bean kept the types asked for in the
\* class attribute _creation_stack, shared by all threads
OnCreationPathShared(bean_type, creation_path) ==
    \/ bean_type \in Range(creation_path)
    \/ \E t \in Threads : /\ ~Idle(t)
                          /\ Top(t).fn = "get_bean"
                          /\ Top(t).pc = "lock"
                          /\ Top(t).bean_type = bean_type

\* line 92: bean_type in _creation_path
OnCreationPath(bean_type, creation_path) == bean_type \in Range(creation_path)

\* lines 97-103: the type whose config get_bean goes on with
ResolvedType(bean_type) ==
    IF DictHas(component_configs, bean_type) THEN bean_type
    ELSE IF FindImplementations(bean_type) # <<>> THEN FindImplementations(bean_type)[1]
    ELSE bean_type

\* line 109: config['scope'] == Scope.SINGLETON and config['instance']
HasPublished(config) == config.scope = SINGLETON /\ Truthy(config.instance)

\* line 129: cls._dependency_cache.get(component_type, {})
DependenciesInfo(component_type) == DictGetOr(dependency_cache, component_type, <<>>)

\* Failure as it would be if BeanNotFoundError were given the requesting type
FailureNamingRequester(t, outcome) ==
    [Event("get_bean", stack[t][1].bean_type, outcome)
       EXCEPT !.key = Top(t).key, !.named = stack[t][1].bean_type,
              !.since = stack[t][1].since]

\* the event of an exception raised in the thread's innermost frame
Failure(t, outcome) ==
    [Event("get_bean", stack[t][1].bean_type, outcome)
       EXCEPT !.key = Top(t).key, !.named = Top(t).bean_type,
              !.since = stack[t][1].since]

\* lines 92-113 and 129-133, up to the first nested call or the constructor
get_bean_body(t) ==
    /\ ~Idle(t)
    /\ Top(t).fn = "get_bean"
    /\ Top(t).pc = "body"
    /\ LET f == Top(t)
           bean_type == f.bean_type
           key == ResolvedType(bean_type)
       IN IF OnCreationPath(bean_type, f.path)
          THEN Raise(t, [Failure(t, "CircularDependencyError")
                           EXCEPT !.cycle = Append(f.path, bean_type)])
          ELSE IF ~DictHas(component_configs, bean_type) /\ ~IsClass(bean_type)
          THEN \* issubclass(component_type, <str>), or <str>.__name__
               Raise(t, Failure(t, IF component_configs # <<>> THEN "TypeError"
                                   ELSE "AttributeError"))
          ELSE IF ~DictHas(component_configs, key)
          THEN Raise(t, Failure(t, "BeanNotFoundError"))
          ELSE IF HasPublished(DictGet(component_configs, key))
          THEN Return(t, DictGet(component_configs, key).instance, key,
                      DictGet(component_configs, key).scope)
          ELSE IF DependenciesInfo(key) = <<>> /\ W.params[key] # <<>>
          THEN \* component_type() without its required arguments
               Raise(t, [Failure(t, "TypeError") EXCEPT !.key = key])
          ELSE /\ stack' = [stack EXCEPT ![t][Len(stack[t])] =
                              [f EXCEPT !.key = key,
                                        !.deps = DependenciesInfo(key),
                                        !.pc = IF DependenciesInfo(key) = <<>>
                                               THEN "ctor" ELSE "deps"]]
               /\ UNCHANGED <<lock, log>>
    /\ UNCHANGED <<world, component_configs, dependency_cache, lru, metrics,
                   objs, ctor_calls, calls>>

\* get_bean_dependency as it would be if the creation path were one list
\* that every call appends to in place: a dependency is handed the types that
\* the dependencies resolved before it, and their dependencies, went through
get_bean_dependency_shared_path(t) ==
    /\ ~Idle(t)
    /\ Top(t).fn = "get_bean"
    /\ Top(t).pc = "deps"
    /\ LET f == Top(t)
           param_type == f.deps[Len(f.resolved) + 1]
           siblings == [i \in 1..Len(f.resolved) |-> objs[f.resolved[i]].cls]
           below == IF f.resolved = <<>> THEN <<>>
                    ELSE [i \in 1..Len(objs[f.resolved[1]].args) |->
                             objs[objs[f.resolved[1]].args[i]].cls]
       IN IF Len(stack[t]) >= RecursionLimit
          THEN Raise(t, Failure(t, "RecursionError"))
          ELSE /\ stack' = [stack EXCEPT ![t] =
                              Append(stack[t],
                                     [Frame(param_type,
                                            Append(f.path, f.key) \o siblings \o below)
                                        EXCEPT !.pc = "body"])]
               /\ lock' = [lock EXCEPT !.count = lock.count + 1]
               /\ log' = log
    /\ UNCHANGED <<world, component_configs, dependency_cache, lru, metrics,
                   objs, ctor_calls, calls>>

\* line 138: cls.get_bean(param_type, creation_path) for the next parameter
get_bean_dependency(t) ==
    /\ ~Idle(t)
    /\ Top(t).fn = "get_bean"
    /\ Top(t).pc = "deps"
    /\ LET f == Top(t)
           param_type == f.deps[Len(f.resolved) + 1]
       IN IF Len(stack[t]) >= RecursionLimit
          THEN Raise(t, Failure(t, "RecursionError"))
          ELSE \* the nested "with cls._lock" re-enters the RLock the thread holds
               /\ stack' = [stack EXCEPT ![t] =
                              Append(stack[t], [Frame(param_type, Append(f.path, f.key))
                                                  EXCEPT !.pc = "body"])]
               /\ lock' = [lock EXCEPT !.count = lock.count + 1]
               /\ log' = log
    /\ UNCHANGED <<world, component_configs, dependency_cache, lru, metrics,
                   objs, ctor_calls, calls>>

\* Published as it would be without the scope test of line 116
PublishedAlways(cfgs, key, inst) ==
    [cfgs EXCEPT ![DictIdx(cfgs, key)].val.instance = inst]

\* lines 116-117: a singleton's config keeps the instance
Published(cfgs, key, inst) ==
    IF DictGet(cfgs, key).scope = SINGLETON
    THEN [cfgs EXCEPT ![DictIdx(cfgs, key)].val.instance = inst]
    ELSE cfgs

\* Counted as it would be if the update wrote back a count read before the
\* other thread's update: the increment of a concurrent call is lost
CountedOnce(m, key) == DictPut(m, key, 1)

\* line 120: cls._metrics[bean_type]['creation_count'] += 1
Counted(m, key) == DictPut(m, key, DictGetOr(m, key, 0) + 1)

\* get_bean_constructed as it would be if the creation were counted under the
\* type that get_bean was asked for
get_bean_constructed_counted_as_asked(t) ==
    /\ ~Idle(t)
    /\ Top(t).fn = "get_bean"
    /\ Top(t).pc = "ctor"
    /\ LET f == Top(t)
           inst == Len(objs) + 1
       IN /\ objs' = Append(objs, [cls |-> f.key, args |-> f.resolved, field |-> None])
          /\ ctor_calls' = [ctor_calls EXCEPT ![f.key] = @ + 1]
          /\ component_configs' = Published(component_configs, f.key, inst)
          /\ metrics' = Counted(metrics, f.bean_type)
          /\ Return(t, inst, f.key, DictGet(component_configs, f.key).scope)
    /\ UNCHANGED <<world, dependency_cache, lru, calls>>

\* lines 133/140 and 116-123: the constructor returns, the instance is
\* published and counted, get_bean returns it
get_bean_constructed(t) ==
    /\ ~Idle(t)
    /\ Top(t).fn = "get_bean"
    /\ Top(t).pc = "ctor"
    /\ LET f == Top(t)
           inst == Len(objs) + 1
       IN /\ objs' = Append(objs, [cls |-> f.key, args |-> f.resolved, field |-> None])
          /\ ctor_calls' = [ctor_calls EXCEPT ![f.key] = @ + 1]
          /\ component_configs' = Published(component_configs, f.key, inst)
          /\ metrics' = Counted(metrics, f.key)
          /\ Return(t, inst, f.key, DictGet(component_configs, f.key).scope)
    /\ UNCHANGED <<world, dependency_cache, lru, calls>>

\* get_bean_constructor_raises as it would be with the metrics update in a
\* finally block
get_bean_constructor_raises_counted(t) ==
    /\ ~Idle(t)
    /\ Top(t).fn = "get_bean"
    /\ Top(t).pc = "ctor"
    /\ Top(t).key \in W.raises
    /\ ctor_calls' = [ctor_calls EXCEPT ![Top(t).key] = @ + 1]
    /\ metrics' = Counted(metrics, Top(t).key)
    /\ Raise(t, Failure(t, "ValueError"))
    /\ UNCHANGED <<world, component_configs, dependency_cache, lru, objs, calls>>

\* get_bean_constructor_raises as it would be if a failing get_bean call undid
\* what it had done: the instances constructed since the call began are
\* unpublished and their counts dropped
get_bean_constructor_raises_rolling_back(t) ==
    /\ ~Idle(t)
    /\ Top(t).fn = "get_bean"
    /\ Top(t).pc = "ctor"
    /\ Top(t).key \in W.raises
    /\ ctor_calls' = [ctor_calls EXCEPT ![Top(t).key] = @ + 1]
    /\ component_configs' =
          [k \in 1..Len(component_configs) |->
             IF component_configs[k].val.instance > stack[t][1].since
             THEN [component_configs[k] EXCEPT !.val.instance = None]
             ELSE component_configs[k]]
    /\ metrics' = SelectSeq(metrics, LAMBDA e :
                      \A o \in (stack[t][1].since + 1)..Len(objs) : objs[o].cls # e.key)
    /\ Raise(t, Failure(t, "ValueError"))
    /\ UNCHANGED <<world, dependency_cache, lru, objs, calls>>

\* lines 133/140: the constructor raises; the error leaves get_bean as it is
get_bean_constructor_raises(t) ==
    /\ ~Idle(t)
    /\ Top(t).fn = "get_bean"
    /\ Top(t).pc = "ctor"
    /\ Top(t).key \in W.raises
    /\ ctor_calls' = [ctor_calls EXCEPT ![Top(t).key] = @ + 1]
    /\ Raise(t, Failure(t, "ValueError"))
    /\ UNCHANGED <<world, component_configs, dependency_cache, lru, metrics,
                   objs, calls>>

\* ---- clear_cache (lines 157-162), which takes no lock

\* clear_cache_dependencies as it would be if clear_cache reset the registry
\* and the metrics as well
clear_cache_everything(t) ==
    /\ Idle(t)
    /\ calls < MaxCalls
    /\ dependency_cache' = <<>>
    /\ component_configs' = <<>>
    /\ metrics' = <<>>
    /\ stack' = [stack EXCEPT ![t] =
                   << [Frame("none", <<>>) EXCEPT !.fn = "clear_cache", !.pc = "lru"] >>]
    /\ calls' = calls + 1
    /\ UNCHANGED <<world, lru, lock, objs, ctor_calls, log>>

\* line 160: cls._dependency_cache.clear()
clear_cache_dependencies(t) ==
    /\ Idle(t)
    /\ calls < MaxCalls
    /\ dependency_cache' = <<>>
    /\ stack' = [stack EXCEPT ![t] =
                   << [Frame("none", <<>>) EXCEPT !.fn = "clear_cache", !.pc = "lru"] >>]
    /\ calls' = calls + 1
    /\ UNCHANGED <<world, component_configs, lru, metrics, lock, objs, ctor_calls, log>>

\* line 162: cls._analyze_dependencies.cache_clear()
clear_cache_lru(t) ==
    /\ ~Idle(t)
    /\ Top(t).fn = "clear_cache"
    /\ lru' = {}
    /\ stack' = [stack EXCEPT ![t] = <<>>]
    /\ log' = Append(log, [Event("clear_cache", "none", "ok")
                             EXCEPT !.since = Top(t).since])
    /\ UNCHANGED <<world, component_configs, dependency_cache, metrics, lock, objs,
                   ctor_calls, calls>>

\* ---- validate_configuration (lines 164-203), which takes no lock

\* lines 186-203: the cycle_path of the CircularDependencyError that
\* _detect_circular_dependencies raises, or <<>> when it returns. DetectAmong
\* is its for loop from the k-th dependency on.
RECURSIVE DetectCircularDependencies(_, _, _), DetectAmong(_, _, _, _)

\* DetectCircularDependencies as it would be if line 194 left out
\* "+ [component_type]"
DetectCircularDependenciesOpen(component_type, visited, path) ==
    IF component_type \in visited
    THEN LET cycle_start == CHOOSE i \in 1..Len(path) :
                                /\ path[i] = component_type
                                /\ \A j \in 1..(i - 1) : path[j] # component_type
         IN SubSeq(path, cycle_start, Len(path))
    ELSE DetectAmong(DictGetOr(dependency_cache, component_type, <<>>), 1,
                     visited \cup {component_type}, Append(path, component_type))

DetectCircularDependencies(component_type, visited, path) ==
    IF component_type \in visited
    THEN LET cycle_start == CHOOSE i \in 1..Len(path) :
                                /\ path[i] = component_type
                                /\ \A j \in 1..(i - 1) : path[j] # component_type
         IN Append(SubSeq(path, cycle_start, Len(path)), component_type)
    ELSE DetectAmong(DictGetOr(dependency_cache, component_type, <<>>), 1,
                     visited \cup {component_type}, Append(path, component_type))

DetectAmong(dependencies, k, visited, path) ==
    IF k > Len(dependencies) THEN <<>>
    ELSE LET found == IF DictHas(component_configs, dependencies[k])
                      THEN DetectCircularDependencies(dependencies[k], visited, path)
                      ELSE <<>>
         IN IF found # <<>> THEN found
            ELSE DetectAmong(dependencies, k + 1, visited, path)

\* line 174: f"Circular dependency: {e.cycle_path}"
CircularIssue(cycle_path) ==
    [kind |-> "Circular dependency", cycle |-> cycle_path, of |-> "none", on |-> "none"]

\* line 182: f"Unresolved dependency: {component_type.__name__} -> {param_type.__name__}"
UnresolvedIssue(component_type, param_type) ==
    [kind |-> "Unresolved dependency", cycle |-> <<>>, of |-> component_type,
     on |-> param_type]

\* UnresolvedAmong as it would be without the search for implementations
UnresolvedAmongExact(component_type, deps) ==
    LET unresolved == SelectSeq(deps, LAMBDA d : ~DictHas(component_configs, d))
    IN [k \in 1..Len(unresolved) |-> UnresolvedIssue(component_type, unresolved[k])]

\* lines 178-182 for one item of the dependency cache: the issues its
\* parameters add, in order
UnresolvedAmong(component_type, deps) ==
    LET unresolved == SelectSeq(deps, LAMBDA d : /\ ~DictHas(component_configs, d)
                                                 /\ FindImplementations(d) = <<>>)
    IN [k \in 1..Len(unresolved) |-> UnresolvedIssue(component_type, unresolved[k])]

\* line 180 reaches issubclass(component_type, <str>) for a parameter that is
\* not a class and not a registry key
UnresolvedFails(deps) ==
    \E k \in 1..Len(deps) :
        /\ ~DictHas(component_configs, deps[k])
        /\ ~IsClass(deps[k])
        /\ component_configs # <<>>

\* a thread calls validate_configuration; line 170 starts iterating the keys
validate_configuration_call(t) ==
    /\ Idle(t)
    /\ calls < MaxCalls
    /\ "validate_configuration" \in W.ops
    /\ stack' = [stack EXCEPT ![t] =
                   << [Frame("none", <<>>) EXCEPT !.fn = "validate_configuration",
                                                 !.pc = "cycles",
                                                 !.used = Len(component_configs),
                                                 !.since = Len(log)] >>]
    /\ calls' = calls + 1
    /\ UNCHANGED <<world, component_configs, dependency_cache, lru, metrics, lock,
                   objs, ctor_calls, log>>

\* lines 170-174: one turn of "for component_type in _component_configs.keys()".
\* The iterator raises RuntimeError when the dict has changed size; when it is
\* exhausted line 177 starts iterating the items of the dependency cache.
ValidateCyclesTurn(t) ==
    LET f == Top(t)
    IN IF Len(component_configs) # f.used
       THEN Raise(t, Event("validate_configuration", "none", "RuntimeError"))
       ELSE /\ UNCHANGED <<lock, log>>
            /\ IF f.it = f.used
               THEN stack' = [stack EXCEPT ![t] =
                                << [f EXCEPT !.pc = "unresolved", !.it = 0,
                                             !.used = Len(dependency_cache)] >>]
               ELSE LET cycle == DetectCircularDependencies(
                                     component_configs[f.it + 1].key, {}, <<>>)
                    IN stack' = [stack EXCEPT ![t] =
                         << [f EXCEPT !.it = f.it + 1,
                                      !.issues = IF cycle = <<>> THEN f.issues
                                                 ELSE Append(f.issues,
                                                             CircularIssue(cycle))] >>]

\* validate_configuration_cycles as it would be if the walk asked
\* _analyze_dependencies for the dependencies of the type it starts from
validate_configuration_cycles_analysing(t) ==
    /\ ~Idle(t)
    /\ Top(t).fn = "validate_configuration"
    /\ Top(t).pc = "cycles"
    /\ ValidateCyclesTurn(t)
    /\ LET component_type == component_configs[Top(t).it + 1].key
       IN IF Top(t).it < Len(component_configs)
          THEN /\ dependency_cache' = AnalyzedCache(dependency_cache, lru, component_type)
               /\ lru' = lru \cup {component_type}
          ELSE UNCHANGED <<dependency_cache, lru>>
    /\ UNCHANGED <<world, component_configs, metrics, objs, ctor_calls, calls>>

validate_configuration_cycles(t) ==
    /\ ~Idle(t)
    /\ Top(t).fn = "validate_configuration"
    /\ Top(t).pc = "cycles"
    /\ ValidateCyclesTurn(t)
    /\ UNCHANGED <<world, component_configs, dependency_cache, lru, metrics,
                   objs, ctor_calls, calls>>

\* lines 177-184: one turn of "for component_type, deps in
\* _dependency_cache.items()", and the return of the issues at its end
validate_configuration_unresolved(t) ==
    /\ ~Idle(t)
    /\ Top(t).fn = "validate_configuration"
    /\ Top(t).pc = "unresolved"
    /\ LET f == Top(t)
       IN IF Len(dependency_cache) # f.used
          THEN Raise(t, Event("validate_configuration", "none", "RuntimeError"))
          ELSE IF f.it = f.used
          THEN \* line 184: return issues
               /\ stack' = [stack EXCEPT ![t] = <<>>]
               /\ log' = Append(log, [Event("validate_configuration", "none", "ok")
                                        EXCEPT !.result = f.issues, !.since = f.since])
               /\ lock' = lock
          ELSE IF UnresolvedFails(dependency_cache[f.it + 1].val)
          THEN Raise(t, Event("validate_configuration", "none", "TypeError"))
          ELSE /\ stack' = [stack EXCEPT ![t] =
                              << [f EXCEPT !.it = f.it + 1,
                                           !.issues = f.issues \o
                                               UnresolvedAmong(
                                                   dependency_cache[f.it + 1].key,
                                                   dependency_cache[f.it + 1].val)] >>]
               /\ UNCHANGED <<lock, log>>
    /\ UNCHANGED <<world, component_configs, dependency_cache, lru, metrics,
                   objs, ctor_calls, calls>>

\* ---- get_metrics (lines 152-155)

\* dict(cls._metrics): a new dict with the keys of _metrics, whose values are
\* the container's own records, not copies of them
get_metrics(t) ==
    /\ Idle(t)
    /\ calls < MaxCalls
    /\ "get_metrics" \in W.ops
    /\ log' = Append(log, [Event("get_metrics", "none", "ok")
                             EXCEPT !.result = DictKeys(metrics), !.seen = metrics])
    /\ calls' = calls + 1
    /\ UNCHANGED <<world, component_configs, dependency_cache, lru, metrics, lock,
                   stack, objs, ctor_calls>>

\* line 155: dict(cls._metrics) copies the outer dict only. The map a
\* get_metrics call returned keeps its own set of keys, and each key is bound
\* to the very record that _metrics holds for it, so that it shows the count
\* that record has now. e is the event of the call.
ReturnedMetrics(e) ==
    [i \in 1..Len(e.result) |->
        [key |-> e.result[i], val |-> DictGet(metrics, e.result[i])]]

\* ---- the specification

Next ==
    \E t \in Threads :
        \/ \E r \in W.registers : register_component(t, r[1], r[2], PrimaryArg(r))
        \/ \E c \in W.requests : get_bean_call(t, c)
        \/ get_bean_lock(t)
        \/ get_bean_body(t)
        \/ get_bean_dependency(t)
        \/ get_bean_constructed(t)
        \/ get_bean_constructor_raises(t)
        \/ clear_cache_dependencies(t)
        \/ clear_cache_lru(t)
        \/ validate_configuration_call(t)
        \/ validate_configuration_cycles(t)
        \/ validate_configuration_unresolved(t)
        \/ get_metrics(t)

Spec == Init /\ [][Next]_vars

\* the steps a thread takes inside a call it has started
Step(t) ==
    \/ get_bean_body(t)
    \/ get_bean_dependency(t)
    \/ get_bean_constructed(t)
    \/ get_bean_constructor_raises(t)
    \/ clear_cache_lru(t)
    \/ validate_configuration_cycles(t)
    \/ validate_configuration_unresolved(t)

\* threads keep running, and a thread waiting for the lock gets it if it is
\* free again and again
LiveSpec ==
    Spec /\ \A t \in Threads : WF_vars(Step(t)) /\ SF_vars(get_bean_lock(t))

\* ------------------------------------------------------- ApplicationContext
\* spring_di.py: the same tables without dependency cache and metrics, and a
\* threading.Lock, which is not reentrant.

\* the tables after the decorators have run: component() registers each class
BasicDecorated ==
    [i \in 1..Len(W.decorated) |->
        [key |-> W.decorated[i][1],
         val |-> NewConfig(W.decorated[i][2], W.decorated[i][1] \in W.primary)]]

InitBasic ==
    /\ world \in WorldNames
    /\ component_configs = BasicDecorated
    /\ dependency_cache = <<>>
    /\ lru = {}
    /\ metrics = <<>>
    /\ lock = Free
    /\ stack = [t \in Threads |-> <<>>]
    /\ objs = <<>>
    /\ ctor_calls = [c \in Classes |-> 0]
    /\ log = <<>>
    /\ calls = 0

\* lines 33-41
basic_register_component(t, component_type, scope, primary) ==
    /\ Idle(t)
    /\ calls < MaxCalls
    /\ lock.owner = "none"
    /\ component_configs' = DictPut(component_configs, component_type,
                                    NewConfig(scope, primary))
    /\ calls' = calls + 1
    /\ log' = Append(log, [Event("register_component", component_type, "ok")
                             EXCEPT !.scope = scope, !.primary = primary])
    /\ UNCHANGED <<world, dependency_cache, lru, metrics, lock, stack, objs, ctor_calls>>

basic_get_bean_call(t, bean_type) ==
    /\ Idle(t)
    /\ calls < MaxCalls
    /\ stack' = [stack EXCEPT ![t] = <<Frame(bean_type, <<>>)>>]
    /\ calls' = calls + 1
    /\ UNCHANGED <<world, component_configs, dependency_cache, lru, metrics, lock,
                   objs, ctor_calls, log>>

\* line 31: a threading.Lock is granted only when nobody holds it, its holder
\* included
BasicCanAcquire(t) == lock.owner = "none"

\* line 46: with cls._lock
basic_get_bean_lock(t) ==
    /\ ~Idle(t)
    /\ Top(t).pc = "lock"
    /\ BasicCanAcquire(t)
    /\ lock' = [owner |-> t, count |-> 1]
    /\ stack' = [stack EXCEPT ![t][Len(stack[t])].pc = "body"]
    /\ UNCHANGED <<world, component_configs, dependency_cache, lru, metrics,
                   objs, ctor_calls, log, calls>>

\* lines 89-95: interface_type in component_type.__mro__
BasicFindImplementations(interface_type) ==
    SelectSeq(DictKeys(component_configs),
              LAMBDA c : interface_type \in W.bases[c] \cup {c})

\* lines 47-53
BasicResolvedType(bean_type) ==
    IF DictHas(component_configs, bean_type) THEN bean_type
    ELSE IF BasicFindImplementations(bean_type) # <<>>
         THEN BasicFindImplementations(bean_type)[1]
    ELSE bean_type

\* leaving get_bean releases the Lock of the frame that took it
BasicRaise(t, ev) ==
    /\ stack' = [stack EXCEPT ![t] = <<>>]
    /\ lock' = IF lock.owner = t THEN Free ELSE lock
    /\ log' = Append(log, ev)

BasicReturn(t, inst, key, scope) ==
    LET n == Len(stack[t])
        f == stack[t][n]
    IN /\ lock' = Free
       /\ IF n = 1
          THEN /\ stack' = [stack EXCEPT ![t] = <<>>]
               /\ log' = Append(log, [Event("get_bean", f.bean_type, "ok")
                                        EXCEPT !.value = inst, !.key = key,
                                               !.scope = scope,
                                               !.since = stack[t][1].since])
          ELSE /\ stack' = [stack EXCEPT ![t] =
                              Append(SubSeq(stack[t], 1, n - 2),
                                     Resume(stack[t][n - 1], inst))]
               /\ log' = log

\* lines 47-63 and 73-82, up to the first nested call or the constructor
basic_get_bean_body(t) ==
    /\ ~Idle(t)
    /\ Top(t).pc = "body"
    /\ LET f == Top(t)
           key == BasicResolvedType(f.bean_type)
       IN IF ~DictHas(component_configs, key)
          THEN \* ValueError("No bean found for type: ..."); a str has no __name__
               BasicRaise(t, Failure(t, IF IsClass(f.bean_type) THEN "ValueError: No bean found for type"
                                        ELSE "AttributeError"))
          ELSE IF HasPublished(DictGet(component_configs, key))
          THEN BasicReturn(t, DictGet(component_configs, key).instance, key,
                           DictGet(component_configs, key).scope)
          ELSE /\ stack' = [stack EXCEPT ![t][Len(stack[t])] =
                              [f EXCEPT !.key = key,
                                        !.deps = AnalyzeSignature(key),
                                        !.pc = IF AnalyzeSignature(key) = <<>>
                                               THEN "ctor" ELSE "deps"]]
               /\ UNCHANGED <<lock, log>>
    /\ UNCHANGED <<world, component_configs, dependency_cache, lru, metrics,
                   objs, ctor_calls, calls>>

\* line 84: cls.get_bean(param_type), which starts at "with cls._lock"
basic_get_bean_dependency(t) ==
    /\ ~Idle(t)
    /\ Top(t).pc = "deps"
    /\ stack' = [stack EXCEPT ![t] =
                   Append(stack[t],
                          Frame(Top(t).deps[Len(Top(t).resolved) + 1], <<>>))]
    /\ UNCHANGED <<world, component_configs, dependency_cache, lru, metrics, lock,
                   objs, ctor_calls, log, calls>>

\* lines 86 and 65-68
basic_get_bean_constructed(t) ==
    /\ ~Idle(t)
    /\ Top(t).pc = "ctor"
    /\ LET f == Top(t)
           inst == Len(objs) + 1
       IN /\ objs' = Append(objs, [cls |-> f.key, args |-> f.resolved, field |-> None])
          /\ ctor_calls' = [ctor_calls EXCEPT ![f.key] = @ + 1]
          /\ component_configs' = Published(component_configs, f.key, inst)
          /\ BasicReturn(t, inst, f.key, DictGet(component_configs, f.key).scope)
    /\ UNCHANGED <<world, dependency_cache, lru, metrics, calls>>

\* line 86: the constructor raises
basic_get_bean_constructor_raises(t) ==
    /\ ~Idle(t)
    /\ Top(t).pc = "ctor"
    /\ Top(t).key \in W.raises
    /\ ctor_calls' = [ctor_calls EXCEPT ![Top(t).key] = @ + 1]
    /\ BasicRaise(t, Failure(t, "ValueError"))
    /\ UNCHANGED <<world, component_configs, dependency_cache, lru, metrics,
                   objs, calls>>

BasicStep(t) ==
    \/ basic_get_bean_lock(t)
    \/ basic_get_bean_body(t)
    \/ basic_get_bean_dependency(t)
    \/ basic_get_bean_constructed(t)
    \/ basic_get_bean_constructor_raises(t)

NextBasic ==
    \E t \in Threads :
        \/ \E r \in W.registers : basic_register_component(t, r[1], r[2], PrimaryArg(r))
        \/ \E c \in W.requests : basic_get_bean_call(t, c)
        \/ BasicStep(t)

SpecBasic == InitBasic /\ [][NextBasic]_vars

\* every thread that can take a step of its call eventually takes one
LiveSpecBasic == SpecBasic /\ \A t \in Threads : WF_vars(BasicStep(t))

\* ---- AutowiredDescriptor (spring_di.py lines 146-171): __get__ 155-164, __set__ 166-167

\* the type of the autowired field that a class declares, "none" when it has
\* none: in the program of two unrelated classes, B declares a: A = autowired(A)
AutowiredField(c) == IF world = "unrelated" /\ c = "B" THEN "A" ELSE "none"

\* the objects with an autowired field
Owners == {o \in 1..Len(objs) : AutowiredField(objs[o].cls) # "none"}

\* lines 155-161, __get__ up to the call of get_bean: hasattr(instance,
\* field_name) is true and the stored object is returned, or it is false and
\* ApplicationContext.get_bean(field_type) is called
autowired_get(t, o) ==
    /\ Idle(t)
    /\ calls < MaxCalls
    /\ o \in Owners
    /\ calls' = calls + 1
    /\ IF objs[o].field # None
       THEN /\ log' = Append(log, [Event("autowired_get", objs[o].cls, "ok")
                                    EXCEPT !.instance = o, !.value = objs[o].field])
            /\ stack' = stack
       ELSE /\ stack' = [stack EXCEPT ![t] =
                           << [Frame(AutowiredField(objs[o].cls), <<>>)
                                 EXCEPT !.fn = "autowired_get", !.pc = "get_bean",
                                        !.instance = o],
                              Frame(AutowiredField(objs[o].cls), <<>>) >>]
            /\ log' = log
    /\ UNCHANGED <<world, component_configs, dependency_cache, lru, metrics, lock,
                   objs, ctor_calls>>

\* line 162: setattr(instance, self.field_name, value)
autowired_setattr(t) ==
    /\ ~Idle(t)
    /\ Top(t).fn = "autowired_get"
    /\ Top(t).pc = "setattr"
    /\ objs' = [objs EXCEPT ![Top(t).instance].field = Top(t).resolved[1]]
    /\ stack' = [stack EXCEPT ![t][Len(stack[t])].pc = "getattr"]
    /\ UNCHANGED <<world, component_configs, dependency_cache, lru, metrics, lock,
                   ctor_calls, log, calls>>

\* line 164: return getattr(instance, self.field_name), after a call of
\* get_bean; key = the field type that get_bean was called for
autowired_return(t) ==
    /\ ~Idle(t)
    /\ Top(t).fn = "autowired_get"
    /\ Top(t).pc = "getattr"
    /\ log' = Append(log, [Event("autowired_get", objs[Top(t).instance].cls, "ok")
                             EXCEPT !.instance = Top(t).instance,
                                    !.value = objs[Top(t).instance].field,
                                    !.key = Top(t).bean_type])
    /\ stack' = [stack EXCEPT ![t] = <<>>]
    /\ UNCHANGED <<world, component_configs, dependency_cache, lru, metrics, lock,
                   objs, ctor_calls, calls>>

\* lines 166-167: __set__, an assignment instance.field = value
autowired_set(t, o, value) ==
    /\ Idle(t)
    /\ calls < MaxCalls
    /\ o \in Owners
    /\ objs' = [objs EXCEPT ![o].field = value]
    /\ calls' = calls + 1
    /\ log' = Append(log, [Event("autowired_set", objs[o].cls, "ok")
                             EXCEPT !.instance = o, !.value = value])
    /\ UNCHANGED <<world, component_configs, dependency_cache, lru, metrics, lock,
                   stack, ctor_calls>>

\* besides calling the container, the threads read the autowired field of an
\* object they were given and assign an object of the field's type to it
NextAutowired ==
    \/ NextBasic
    \/ \E t \in Threads :
          \/ \E o \in 1..Len(objs) : autowired_get(t, o)
          \/ autowired_setattr(t)
          \/ autowired_return(t)
          \/ \E o, v \in 1..Len(objs) :
                objs[v].cls = AutowiredField(objs[o].cls) /\ autowired_set(t, o, v)

SpecAutowired == InitBasic /\ [][NextAutowired]_vars

\* ================================================================ claims

LogIdx == 1..Len(log)

GetBeanOk(e) == e.op = "get_bean" /\ e.outcome = "ok"

HasDuplicate(path) == \E i, j \in 1..Len(path) : i < j /\ path[i] = path[j]

\* no clear_cache has been started
NeverCleared ==
    /\ \A i \in LogIdx : log[i].op # "clear_cache"
    /\ \A t \in Threads : Idle(t) \/ Top(t).fn # "clear_cache"

\* the thread's step ends its top-level get_bean call with the given outcome
EndsWith(t, outcome) ==
    /\ stack'[t] = <<>>
    /\ Len(log') = Len(log) + 1
    /\ SubSeq(log', 1, Len(log)) = log
    /\ log'[Len(log')].op = "get_bean"
    /\ log'[Len(log')].arg = stack[t][1].bean_type
    /\ log'[Len(log')].outcome = outcome

\* no instance of class c was among the first n instances constructed
Unbuilt(c, n) == \A o \in 1..n : objs[o].cls # c

\* every get_bean call, finished or running, began before c was constructed
AllCalledEarly(c) ==
    /\ \A i \in LogIdx : log[i].op = "get_bean" => Unbuilt(c, log[i].since)
    /\ \A t \in Threads :
          (~Idle(t) /\ Top(t).fn = "get_bean") => Unbuilt(c, stack[t][1].since)

\* C1: when get_bean calls for a singleton type (registered once, with a
\* constructor that does not raise) all begin before the type has been
\* constructed, its constructor runs at most once and the calls that resolve
\* to it all return the same instance.
C1_ConstructedOnce ==
    \A c \in Classes :
        ( /\ DictHas(component_configs, c)
          /\ DictGet(component_configs, c).scope = SINGLETON
          /\ c \notin W.raises
          /\ \A i \in LogIdx : log[i].op # "register_component"
          /\ AllCalledEarly(c) )
        => /\ ctor_calls[c] <= 1
           /\ \A i, j \in LogIdx :
                (GetBeanOk(log[i]) /\ GetBeanOk(log[j]) /\ log[i].key = c /\ log[j].key = c)
                => log[i].value = log[j].value

\* C2: two get_bean calls that resolve to the same singleton type, with no
\* register_component of that type and no clear_cache finished between them,
\* return the same instance.
C2_SameInstance ==
    \A i, j \in LogIdx :
        ( /\ i < j
          /\ GetBeanOk(log[i]) /\ GetBeanOk(log[j])
          /\ log[i].key = log[j].key
          /\ log[i].scope = SINGLETON /\ log[j].scope = SINGLETON
          /\ \A k \in (i + 1)..(j - 1) :
                /\ ~(log[k].op = "register_component" /\ log[k].arg = log[i].key)
                /\ log[k].op # "clear_cache" )
        => log[i].value = log[j].value

\* C3: the config of a prototype type never holds an instance, and a get_bean
\* call that resolves to a prototype type returns an instance of that type
\* which no earlier call returned and which no config holds; there are at
\* least as many constructor runs of the type as such calls.
C3_PrototypeFresh ==
    /\ \A n \in 1..Len(component_configs) :
          component_configs[n].val.scope = PROTOTYPE
          => component_configs[n].val.instance = None
    /\ \A j \in LogIdx :
          (GetBeanOk(log[j]) /\ log[j].scope = PROTOTYPE)
          => /\ objs[log[j].value].cls = log[j].key
             /\ \A i \in 1..(j - 1) : GetBeanOk(log[i]) => log[i].value # log[j].value
             /\ \A n \in 1..Len(component_configs) :
                   component_configs[n].val.instance # log[j].value
    /\ \A c \in Classes :
          Cardinality({j \in LogIdx : GetBeanOk(log[j]) /\ log[j].scope = PROTOTYPE
                                      /\ log[j].key = c}) <= ctor_calls[c]

\* two calls have returned instances of the same prototype type
C3_Witness ==
    \E i, j \in LogIdx :
        /\ i < j
        /\ GetBeanOk(log[i]) /\ GetBeanOk(log[j])
        /\ log[i].key = log[j].key
        /\ log[i].scope = PROTOTYPE /\ log[j].scope = PROTOTYPE

\* C4: in a program where A's constructor asks for B and B's for A, both
\* registered and their dependency maps cached, every get_bean(A) ends with
\* CircularDependencyError whose path holds A and B, and neither constructor
\* runs.
C4_CycleRejected ==
    (world \in {"cycle", "fwdcycle"} /\ NeverCleared)
    => /\ ctor_calls["A"] = 0 /\ ctor_calls["B"] = 0
       /\ \A i \in LogIdx :
             (log[i].op = "get_bean" /\ log[i].arg = "A")
             => /\ log[i].outcome = "CircularDependencyError"
                /\ {"A", "B"} \subseteq Range(log[i].cycle)

\* C5: no creation path of a get_bean frame, extended by the type the frame
\* is constructing, holds a type twice.
C5_PathHasNoDuplicate ==
    \A t \in Threads : \A n \in 1..Len(stack[t]) :
        stack[t][n].fn = "get_bean"
        => /\ ~HasDuplicate(stack[t][n].path)
           /\ stack[t][n].pc \in {"deps", "ctor"}
              => ~HasDuplicate(Append(stack[t][n].path, stack[t][n].key))

\* C6: every get_bean call a thread has started ends, with an instance or an
\* error, whatever the registry and whatever the other thread did or failed at.
C6_GetBeanCompletes ==
    \A t \in Threads : (~Idle(t) /\ Top(t).fn = "get_bean") ~> Idle(t)

\* a call ran into the recursion limit and a later call has ended as well
C6_Witness ==
    \E i, j \in LogIdx :
        i < j /\ log[i].outcome = "RecursionError" /\ log[j].op = "get_bean"

\* a class that is neither registered nor implemented by a registered class
Missing(d) ==
    IsClass(d) /\ ~DictHas(component_configs, d) /\ FindImplementations(d) = <<>>

\* C7: when the nested get_bean for a constructor dependency D finds D neither
\* registered nor implemented, the whole call ends with BeanNotFoundError
\* naming D, and no constructor runs.
C7_MissingDependencyNamed ==
    [][ \A t \in Threads :
          ( /\ Len(stack[t]) >= 2
            /\ Top(t).pc = "body"
            /\ Missing(Top(t).bean_type)
            /\ stack'[t] # stack[t] )
          => /\ EndsWith(t, "BeanNotFoundError")
             /\ log'[Len(log')].named = Top(t).bean_type
             /\ log'[Len(log')].named # stack[t][1].bean_type
             /\ ctor_calls' = ctor_calls
             /\ objs' = objs ]_vars

\* get_bean(A) has failed because A's dependency U is missing
C7_Witness ==
    \E i \in LogIdx :
        /\ log[i].op = "get_bean" /\ log[i].arg = "A"
        /\ log[i].outcome = "BeanNotFoundError" /\ log[i].named = "U"
        /\ ctor_calls["A"] = 0

\* C8: when the constructor of T raises, the call ends with the constructor's
\* own error, T's config and the metrics are left as they were, T is not
\* published, and the lock is free again.
C8_ConstructorErrorPassedOn ==
    [][ \A t \in Threads :
          ( /\ ~Idle(t)
            /\ Top(t).fn = "get_bean"
            /\ Top(t).pc = "ctor"
            /\ stack'[t] # stack[t]
            /\ objs' = objs )
          => /\ EndsWith(t, "ValueError")
             /\ component_configs' = component_configs
             /\ ~HasPublished(DictGet(component_configs', Top(t).key))
             /\ metrics' = metrics
             /\ lock' = Free ]_vars

\* the constructor of A raised, and a later call ran it again
C8_Witness ==
    /\ world = "flaky"
    /\ ctor_calls["A"] >= 2
    /\ \E i \in LogIdx : log[i].outcome = "ValueError" /\ log[i].arg = "A"
    /\ Len(objs) >= 1

\* C9: a get_bean call of ApplicationContext never waits for the lock while
\* the waiting thread itself holds it.
C9_NeverWaitsForOwnLock ==
    \A t \in Threads : ~(~Idle(t) /\ Top(t).pc = "lock" /\ lock.owner = t)

\* C10: in the program whose class A requires the unregistered class U, a
\* started ApplicationContext.get_bean(A) ends with the ValueError
\* "No bean found for type".
C10_MissingRaisesValueError ==
    \A t \in Threads :
        (world = "missing" /\ ~Idle(t) /\ stack[t][1].bean_type = "A")
        ~> (\E i \in LogIdx : /\ log[i].arg = "A"
                              /\ log[i].outcome = "ValueError: No bean found for type")

\* the creation count the metrics hold for a class
CreationCount(c) == DictGetOr(metrics, c, 0)

\* C11: in the program with the singleton chain A -> B -> C -> D -> E, as long
\* as no cache has been cleared, every finished get_bean(A) has returned an
\* instance, no class of the chain is counted more than once, and once a
\* get_bean(A) has returned each of the five is counted exactly once.
C11_ChainCreatedOnce ==
    (world = "chain" /\ NeverCleared)
    => /\ \A i \in LogIdx :
             (log[i].op = "get_bean" /\ log[i].arg = "A") => log[i].outcome = "ok"
       /\ \A c \in W.defined : CreationCount(c) <= 1
       /\ (\E i \in LogIdx : GetBeanOk(log[i]) /\ log[i].arg = "A")
          => \A c \in W.defined : CreationCount(c) = 1

\* two get_bean(A) calls on the chain, both begun before anything was
\* constructed, have returned
C11_Witness ==
    /\ world = "chain"
    /\ NeverCleared
    /\ \E i, j \in LogIdx :
          /\ i < j
          /\ GetBeanOk(log[i]) /\ log[i].arg = "A" /\ log[i].since = 0
          /\ GetBeanOk(log[j]) /\ log[j].arg = "A" /\ log[j].since = 0

\* the instances of class c constructed so far
InstancesOf(c) == {o \in 1..Len(objs) : objs[o].cls = c}

\* c was registered as a singleton by its decorator and never again
RegisteredOnceAsSingleton(c) ==
    /\ \E n \in 1..Len(W.decorated) : W.decorated[n] = <<c, SINGLETON>>
    /\ \A i \in LogIdx : ~(log[i].op = "register_component" /\ log[i].arg = c)

\* C12: the creation count of every type equals the number of its instances
\* that get_bean constructed, and a singleton registered once is counted at
\* most once, however often it was requested.
C12_CreationCount ==
    \A c \in Classes :
        /\ CreationCount(c) = Cardinality(InstancesOf(c))
        /\ RegisteredOnceAsSingleton(c) => CreationCount(c) <= 1

\* C13: no step replaces or clears the instance a config holds.
C13_PublishedStays ==
    [][ \A n \in 1..Len(component_configs) :
          component_configs[n].val.instance # None
          => component_configs'[n].val.instance = component_configs[n].val.instance
      ]_vars

\* a get_bean call that returned an instance of another type than the one it
\* was asked for: the type had no config and was resolved as a capability
ThroughCapability(e) == GetBeanOk(e) /\ e.key # e.arg

\* the registered implementations of a capability that are marked primary
PrimaryImplementations(interface_type) ==
    {c \in Range(DictKeys(component_configs)) :
        /\ IsImplementation(c, interface_type)
        /\ DictGet(component_configs, c).primary}

\* C14: a get_bean call for a capability of which exactly one registered
\* implementation is primary returns an instance of that implementation.
C14_PrimarySelected ==
    \A i \in LogIdx :
        (ThroughCapability(log[i]) /\ Cardinality(PrimaryImplementations(log[i].arg)) = 1)
        => log[i].key \in PrimaryImplementations(log[i].arg)

\* the classes in the order of their first registration: by the decorators,
\* then by the register_component calls
RegistrationOrder ==
    LET regs == SelectSeq(log, LAMBDA e : e.op = "register_component")
    IN [n \in 1..Len(W.decorated) |-> W.decorated[n][1]]
       \o [k \in 1..Len(regs) |-> regs[k].arg]

\* the implementation of a capability that was registered before all others
FirstRegistered(interface_type) ==
    LET impls == SelectSeq(RegistrationOrder,
                           LAMBDA c : IsImplementation(c, interface_type))
    IN impls[1]

\* C15: a get_bean call for a capability none of whose registered
\* implementations is primary returns an instance of the implementation that
\* was registered first, whatever was registered or re-registered after it.
C15_FirstRegisteredSelected ==
    \A i \in LogIdx :
        (ThroughCapability(log[i]) /\ PrimaryImplementations(log[i].arg) = {})
        => log[i].key = FirstRegistered(log[i].arg)

\* the first implementation A was registered again, a third implementation C
\* was added, and a later get_bean(Base) returned an instance of A
C15_Witness ==
    \E i, j, k \in LogIdx :
        /\ i < k /\ j < k
        /\ log[i].op = "register_component" /\ log[i].arg = "A"
        /\ log[j].op = "register_component" /\ log[j].arg = "C"
        /\ ThroughCapability(log[k]) /\ log[k].arg = "Base" /\ log[k].key = "A"
        /\ PrimaryImplementations("Base") = {}

\* C16: no get_bean call for a capability with more than one primary
\* implementation returns an instance.
C16_AmbiguousRejected ==
    \A i \in LogIdx :
        ThroughCapability(log[i])
        => Cardinality(PrimaryImplementations(log[i].arg)) <= 1

\* a validate_configuration call that returned its issues
ValidateOk(e) == e.op = "validate_configuration" /\ e.outcome = "ok"

\* no register_component call has finished
NeverRegistered == \A i \in LogIdx : log[i].op # "register_component"

\* C17: in the program whose registry holds the cyclic pair A, B and the type
\* C with the dangling dependency U, with no other registration and no cache
\* cleared, validate_configuration returns exactly two issues and the metrics
\* hold no creation count, as before the call.
C17_TwoIssues ==
    (world = "dangling" /\ NeverRegistered /\ NeverCleared)
    => /\ metrics = <<>>
       /\ \A i \in LogIdx : ValidateOk(log[i]) => Len(log[i].result) = 2

\* the thread's step belongs to a validate_configuration call
ValidateStep(t) ==
    /\ stack'[t] # stack[t]
    /\ \/ ~Idle(t) /\ Top(t).fn = "validate_configuration"
       \/ stack'[t] # <<>> /\ stack'[t][1].fn = "validate_configuration"

\* C18: no step of validate_configuration runs a constructor or changes the
\* registry, the dependency cache, the memo of the analyzer or the metrics.
C18_ValidateChangesNothing ==
    [][ \A t \in Threads :
          ValidateStep(t)
          => /\ component_configs' = component_configs
             /\ dependency_cache' = dependency_cache
             /\ lru' = lru
             /\ metrics' = metrics
             /\ objs' = objs
             /\ ctor_calls' = ctor_calls ]_vars

\* validate_configuration was called and has returned after a get_bean call
\* had constructed, published and counted an instance
C18_Witness ==
    \E i, k \in LogIdx :
        /\ GetBeanOk(log[i])
        /\ ValidateOk(log[k]) /\ log[k].since >= i
        /\ metrics # <<>>
        /\ \E n \in 1..Len(component_configs) : component_configs[n].val.instance # None

\* C19: every validate_configuration call returns a list of issues.
C19_ValidateNeverFails ==
    \A i \in LogIdx : log[i].op = "validate_configuration" => log[i].outcome = "ok"

\* the types registered when the i-th finished call ended
RegisteredAt(i) ==
    {W.decorated[n][1] : n \in 1..Len(W.decorated)}
    \cup {log[k].arg : k \in {k \in 1..(i - 1) : log[k].op = "register_component"}}

\* the pairs (T, D) of a registered type and a declared constructor dependency
\* of it that is neither registered nor a base of a registered type
ExpectedUnresolved(i) ==
    {p \in RegisteredAt(i) \X Annotations :
        /\ p[2] \in Range(W.params[p[1]])
        /\ p[2] \notin RegisteredAt(i)
        /\ \A c \in RegisteredAt(i) : p[2] \notin W.bases[c]}

\* the pairs of the unresolved-dependency issues among the issues returned
ReportedUnresolved(issues) ==
    {<<issues[n].of, issues[n].on>> :
        n \in {n \in 1..Len(issues) : issues[n].kind = "Unresolved dependency"}}

\* no registration finished while the i-th finished call was running
Undisturbed(i) ==
    \A k \in (log[i].since + 1)..(i - 1) : log[k].op # "register_component"

\* C20: as long as no cache has been cleared, a validate_configuration call
\* during which nothing was registered returns an unresolved-dependency issue
\* for exactly the pairs (T, D) where T is registered, D is a declared
\* constructor dependency of T and D is neither registered nor implemented by
\* a registered type.
C20_UnresolvedReported ==
    NeverCleared
    => \A i \in LogIdx :
          (ValidateOk(log[i]) /\ Undisturbed(i))
          => ReportedUnresolved(log[i].result) = ExpectedUnresolved(i)

\* one validate_configuration call has reported the dangling dependency U of
\* A, and a later one, after the subclass B of U was registered, has reported
\* nothing
C20_Witness ==
    /\ NeverCleared
    /\ \E i, j, k \in LogIdx :
          /\ i < j /\ j <= log[k].since
          /\ ValidateOk(log[i]) /\ Undisturbed(i)
          /\ ReportedUnresolved(log[i].result) = {<<"A", "U">>}
          /\ log[j].op = "register_component" /\ log[j].arg = "B"
          /\ ValidateOk(log[k]) /\ log[k].result = <<>>

\* the registered types that a type of S declares as a constructor parameter
Successors(S, regs) ==
    {b \in regs : \E a \in S \cap regs : b \in Range(W.params[a])}

\* S and everything reached from it in at most n steps
RECURSIVE Descendants(_, _, _)
Descendants(S, regs, n) ==
    IF n = 0 THEN S ELSE Descendants(S \cup Successors(S, regs), regs, n - 1)

\* the declared dependencies among the types regs lead from a type to itself
HasCycle(regs) ==
    \E c \in regs :
        c \in Descendants(Successors({c}, regs), regs, Cardinality(Classes))

\* the paths of the circular-dependency issues among the issues returned
ReportedCycles(issues) ==
    {issues[n].cycle :
        n \in {n \in 1..Len(issues) : issues[n].kind = "Circular dependency"}}

\* a path that returns to its first type along declared dependencies
ClosedDependencyPath(path) ==
    /\ Len(path) >= 2
    /\ path[1] = path[Len(path)]
    /\ \A k \in 1..(Len(path) - 1) : path[k + 1] \in Range(W.params[path[k]])

\* C21: as long as no cache has been cleared, a validate_configuration call
\* during which nothing was registered returns a circular-dependency issue
\* exactly when the declared dependencies among the registered types hold a
\* cycle (so none for the diamond), and every path it reports starts and ends
\* at the same type and follows declared dependencies.
C21_CyclesReported ==
    NeverCleared
    => \A i \in LogIdx :
          (ValidateOk(log[i]) /\ Undisturbed(i))
          => /\ (ReportedCycles(log[i].result) # {}) <=> HasCycle(RegisteredAt(i))
             /\ \A path \in ReportedCycles(log[i].result) : ClosedDependencyPath(path)

\* validate_configuration has returned the cycle A -> B -> A
C21_Witness ==
    /\ NeverCleared
    /\ \E i \in LogIdx :
          /\ ValidateOk(log[i])
          /\ <<"A", "B", "A">> \in ReportedCycles(log[i].result)

\* the thread waits at "with cls._lock" of a top-level get_bean call
WaitingAtLock(t) ==
    ~Idle(t) /\ Top(t).fn = "get_bean" /\ Top(t).pc = "lock"

\* the thread is inside the "with cls._lock" block of get_bean
InsideGetBean(t) ==
    ~Idle(t) /\ Top(t).fn = "get_bean" /\ Top(t).pc \in {"body", "deps", "ctor"}

\* the thread is inside the constructor of a type
InConstructor(t) ==
    ~Idle(t) /\ Top(t).fn = "get_bean" /\ Top(t).pc = "ctor"

\* two types that share no dependency
Unrelated(a, b) ==
    Descendants({a}, Classes, Cardinality(Classes))
    \cap Descendants({b}, Classes, Cardinality(Classes)) = {}

\* C22 (as claimed): construction is not serialized: a thread that asks for a
\* type is not held up while another thread is inside the constructor of an
\* unrelated type, so that both can be inside their constructors at once.
C22_ConstructedInParallel ==
    \A t, u \in Threads :
        ( /\ WaitingAtLock(t)
          /\ InConstructor(u)
          /\ IsClass(Top(t).bean_type)
          /\ Unrelated(ResolvedType(Top(t).bean_type), Top(u).key) )
        => CanAcquire(t)

\* C22 (amended): construction is serialized: a thread inside the locked
\* block of get_bean owns the lock and no other thread is inside it, so no
\* two threads are inside constructors at the same time.
C22_ConstructionSerialized ==
    \A t, u \in Threads :
        InsideGetBean(t)
        => /\ lock.owner = t
           /\ (u # t => ~InsideGetBean(u))

\* a thread is inside the constructor of B while the other waits for the lock
\* with a request for the unrelated type A
C22_Witness ==
    /\ world = "unrelated"
    /\ \E t, u \in Threads :
          /\ WaitingAtLock(t) /\ Top(t).bean_type = "A"
          /\ InConstructor(u) /\ Top(u).key = "B"
          /\ Unrelated("A", "B")
          /\ ~CanAcquire(t)

\* the frame asks for a type whose singleton instance is published
AsksForPublished(f) ==
    /\ IsClass(f.bean_type)
    /\ ~OnCreationPath(f.bean_type, f.path)
    /\ DictHas(component_configs, ResolvedType(f.bean_type))
    /\ HasPublished(DictGet(component_configs, ResolvedType(f.bean_type)))

\* C23 (as claimed): a get_bean call for a published singleton is not held up
\* at the lock while another thread is inside the constructor of a different
\* type.
C23_PublishedReturnedWithoutLock ==
    \A t, u \in Threads :
        ( /\ WaitingAtLock(t)
          /\ AsksForPublished(Top(t))
          /\ InConstructor(u)
          /\ Top(u).key # ResolvedType(Top(t).bean_type) )
        => CanAcquire(t)

\* C23 (amended): a get_bean call for a published singleton waits for the
\* lock while another thread is inside get_bean; it looks at the config only
\* when it owns the lock, and then returns the published instance without
\* running a constructor or counting anything.
C23_PublishedReturnedUnderLock ==
    [][ \A t \in Threads :
          /\ (WaitingAtLock(t) /\ \E u \in Threads \ {t} : InsideGetBean(u))
             => ~CanAcquire(t)
          /\ ( /\ ~Idle(t)
               /\ Top(t).fn = "get_bean"
               /\ Top(t).pc = "body"
               /\ AsksForPublished(Top(t))
               /\ stack'[t] # stack[t] )
             => /\ lock.owner = t
                /\ objs' = objs
                /\ ctor_calls' = ctor_calls
                /\ metrics' = metrics
                /\ component_configs' = component_configs
                /\ Len(stack[t]) = 1
                   => /\ EndsWith(t, "ok")
                      /\ log'[Len(log')].value =
                            DictGet(component_configs,
                                    ResolvedType(Top(t).bean_type)).instance
      ]_vars

\* a get_bean(B) call that began when the singleton B was published has
\* returned that instance, and B was constructed once
C23_Witness ==
    /\ world = "unrelated"
    /\ ctor_calls["B"] = 1
    /\ \E i \in LogIdx :
          /\ GetBeanOk(log[i]) /\ log[i].arg = "B"
          /\ log[i].since >= log[i].value
          /\ DictGet(component_configs, "B").instance = log[i].value

\* the types the frames below the n-th frame of a thread are constructing
Enclosing(t, n) == [k \in 1..(n - 1) |-> stack[t][k].key]

\* programs whose declared dependencies hold no cycle
Acyclic == ~HasCycle(W.defined) /\ world \notin {"fwdcycle", "capcycle"}

\* C24: the creation path of every get_bean frame holds exactly the types
\* that the enclosing frames of the same thread are constructing, whatever
\* the other thread is doing, and in a program without cycle no call ends
\* with CircularDependencyError.
C24_PathIsLocal ==
    /\ \A t \in Threads : \A n \in 1..Len(stack[t]) :
          stack[t][n].fn = "get_bean" => stack[t][n].path = Enclosing(t, n)
    /\ Acyclic => \A i \in LogIdx : log[i].outcome # "CircularDependencyError"

\* a thread is constructing the chain below A while the other has asked for C,
\* a type on the first thread's creation path, and both calls of an earlier
\* such pair could not have failed: one call has already returned
C24_Witness ==
    /\ world = "chain"
    /\ \E t, u \in Threads :
          /\ InsideGetBean(t)
          /\ "C" \in Range(Top(t).path)
          /\ WaitingAtLock(u) /\ Top(u).bean_type = "C"

\* the get_bean calls that returned an instance of class c
ReturnedOf(c) == {i \in LogIdx : GetBeanOk(log[i]) /\ log[i].key = c}

\* c is no constructor parameter of a defined class: it is constructed by
\* top-level calls only
OnlyRequested(c) ==
    \A d \in W.defined : \A k \in 1..Len(W.params[d]) :
        ResolvedType(W.params[d][k]) # c

ClearCacheBegins(t) ==
    /\ Idle(t)
    /\ stack'[t] # <<>>
    /\ stack'[t][1].fn = "clear_cache"

\* the thread's step is the last statement of clear_cache (line 162)
ClearCacheEnds(t) ==
    /\ ~Idle(t)
    /\ Top(t).fn = "clear_cache"
    /\ stack'[t] = <<>>

\* a clear_cache call has just returned, nothing was constructed while it
\* ran and no thread is inside a call
JustCleared ==
    /\ \A t \in Threads : Idle(t)
    /\ Len(log) > 0
    /\ log[Len(log)].op = "clear_cache"
    /\ log[Len(log)].since = Len(objs)

\* C26 as stated: after clear_cache has returned (in a run without
\* register_component calls) no type is registered, no singleton instance is
\* retained, the dependency cache is empty and the metrics are empty.
C26_ClearCacheResetsAll ==
    (JustCleared /\ \A i \in LogIdx : log[i].op # "register_component") =>
        /\ component_configs = <<>>
        /\ dependency_cache = <<>>
        /\ metrics = <<>>

\* C26: clear_cache empties the dependency cache with its first statement
\* and the memo of the analyzer with its last, and neither statement changes
\* the registry (the registered types, their scopes, their published
\* instances) or the metrics.
C26_ClearCacheClearsCachesOnly ==
    [][\A t \in Threads :
          /\ ClearCacheBegins(t) =>
                /\ dependency_cache' = <<>>
                /\ UNCHANGED <<component_configs, metrics, lru, objs>>
          /\ ClearCacheEnds(t) =>
                /\ lru' = {}
                /\ UNCHANGED <<component_configs, metrics, dependency_cache, objs>>]_vars

\* clear_cache has returned while a singleton was published and counted: the
\* instance is still in the registry and the count still in the metrics
C26_Witness ==
    /\ JustCleared
    /\ metrics # <<>>
    /\ \E k \in 1..Len(component_configs) :
          /\ component_configs[k].val.scope = SINGLETON
          /\ component_configs[k].val.instance # None

\* C27 as stated: in the program A(B), B(C), C, whose types stay registered,
\* a get_bean call that ends after a clear_cache has returned ends with an
\* instance that was given every declared dependency.
C27_RecomputedAfterClear ==
    world = "chain" =>
        \A i \in LogIdx :
            (/\ log[i].op = "get_bean"
             /\ \E j \in 1..(i - 1) : log[j].op = "clear_cache")
            => /\ GetBeanOk(log[i])
               /\ Len(objs[log[i].value].args) = Len(W.params[log[i].key])

\* the step is a register_component call, which returns at once
Registers ==
    /\ Len(log') = Len(log) + 1
    /\ log'[Len(log')].op = "register_component"

\* C28 as stated: when register_component(T) returns, the dependency cache
\* holds T's dependency map, also when a clear_cache call is running or has
\* returned before, and a map that was cached before is returned unchanged.
C28_CachedWhenRegistered ==
    [][Registers =>
         LET T == log'[Len(log')].arg
         IN /\ DictHas(dependency_cache', T)
            /\ DictGet(dependency_cache', T) = AnalyzeSignature(T)
            /\ DictHas(dependency_cache, T) =>
                  DictGet(dependency_cache', T) = DictGet(dependency_cache, T)]_vars

\* the register_component calls made for class c at run time
RegistrationsOf(c) ==
    {i \in LogIdx : log[i].op = "register_component" /\ log[i].arg = c}

\* the decorator calls made for class c when the program was loaded
DecorationsOf(c) == {i \in 1..Len(W.decorated) : W.decorated[i][1] = c}

Latest(S) == CHOOSE i \in S : \A j \in S : j <= i

\* scope and primary flag of the most recent registration of class c
LatestRegistration(c) ==
    IF RegistrationsOf(c) # {}
    THEN [scope |-> log[Latest(RegistrationsOf(c))].scope,
          primary |-> log[Latest(RegistrationsOf(c))].primary]
    ELSE [scope |-> W.decorated[Latest(DecorationsOf(c))][2],
          primary |-> c \in W.primary]

\* C29: every register_component call succeeds; the registry holds one
\* descriptor for each type registered so far and for no other, with the scope
\* and the primary flag of the type's most recent registration; and
\* registering a type twice with the same arguments leaves the registry that
\* registering it once leaves.
C29_LastWriteWins ==
    /\ \A i \in LogIdx : log[i].op = "register_component" => log[i].outcome = "ok"
    /\ \A i, j \in 1..Len(component_configs) :
          i # j => component_configs[i].key # component_configs[j].key
    /\ Range(DictKeys(component_configs))
          = {c \in Classes : RegistrationsOf(c) # {} \/ DecorationsOf(c) # {}}
    /\ \A k \in 1..Len(component_configs) :
          LET c == component_configs[k].key
          IN /\ component_configs[k].val.scope = LatestRegistration(c).scope
             /\ component_configs[k].val.primary = LatestRegistration(c).primary
    /\ \A r \in W.registers :
          LET once == Registered(component_configs, dependency_cache, lru,
                                 r[1], r[2], PrimaryArg(r))
              twice == Registered(once.configs, once.cache, once.memo,
                                  r[1], r[2], PrimaryArg(r))
          IN twice = once

\* A, decorated as a singleton that is not primary, has been registered twice
\* at run time with different scopes and primary flags, and another time with
\* the arguments of the call before
C29_Witness ==
    /\ world = "reregister"
    /\ \E i, j \in RegistrationsOf("A") :
          /\ i < j
          /\ log[i].scope # log[j].scope
          /\ log[i].primary # log[j].primary
    /\ \E i, j \in RegistrationsOf("A") :
          /\ i < j
          /\ log[i].scope = log[j].scope
          /\ log[i].primary = log[j].primary

\* C30 as stated: the map that a get_metrics call returned shows, in every
\* later state, the types and the creation counts it showed when it was
\* returned.
C30_MetricsSnapshot ==
    \A i \in LogIdx :
        log[i].op = "get_metrics" => ReturnedMetrics(log[i]) = log[i].seen

\* C31: in the diamond A(B, C), B(D, E), C(D, E), where D is a singleton and E
\* a prototype, no get_bean call ends with CircularDependencyError and the
\* creation path of a call holds its callers only, never a sibling; the A
\* that get_bean(A) returns holds a B and a C that were given the same
\* instance of D, constructed once, and two distinct instances of E,
\* constructed twice.
C31_DiamondResolves ==
    world = "diamonds" =>
        /\ \A i \in LogIdx : log[i].outcome # "CircularDependencyError"
        /\ \A t \in Threads : \A n \in 1..Len(stack[t]) :
              stack[t][n].fn = "get_bean" => Len(stack[t][n].path) = n - 1
        /\ \A i \in LogIdx :
              (GetBeanOk(log[i]) /\ log[i].key = "A") =>
                 LET a == objs[log[i].value]
                     b == objs[a.args[1]]
                     c == objs[a.args[2]]
                 IN /\ a.cls = "A" /\ b.cls = "B" /\ c.cls = "C"
                    /\ b.args[1] = c.args[1]
                    /\ objs[b.args[1]].cls = "D"
                    /\ Cardinality(InstancesOf("D")) = 1
                    /\ b.args[2] # c.args[2]
                    /\ objs[b.args[2]].cls = "E"
                    /\ objs[c.args[2]].cls = "E"
                    /\ Cardinality(InstancesOf("E")) = 2

\* get_bean(A) has returned, two instances of E having been constructed
C31_Witness ==
    /\ world = "diamonds"
    /\ \E i \in LogIdx : GetBeanOk(log[i]) /\ log[i].key = "A"
    /\ Cardinality(InstancesOf("E")) = 2

\* the reads of the autowired field of object o that have returned
ReadsOf(o) ==
    {i \in LogIdx : log[i].op = "autowired_get" /\ log[i].instance = o}

\* C32 as stated, for an object whose field was never assigned explicitly:
\* the reads of its autowired field have called get_bean once at most, and
\* they have all returned the same object.
C32_InjectedOncePerInstance ==
    \A o \in Owners :
        (\A i \in LogIdx : ~(log[i].op = "autowired_set" /\ log[i].instance = o))
        => /\ \A i, j \in ReadsOf(o) : log[i].value = log[j].value
           /\ \A i, j \in ReadsOf(o) :
                 (log[i].key # "none" /\ log[j].key # "none") => i = j

\* C33: in the program where A is constructed from the singleton D and from
\* the capability Base that D implements, and nothing is registered again,
\* there is one instance of D at most; it is what every get_bean(D) and every
\* get_bean(Base) call returned and what A was given for both parameters;
\* and it is counted once, under D, the metrics holding no entry for Base.
C33_SingletonShared ==
    world = "shared" =>
        /\ Cardinality(InstancesOf("D")) <= 1
        /\ \A i \in LogIdx :
              (GetBeanOk(log[i]) /\ log[i].arg \in {"D", "Base"}) =>
                 /\ log[i].key = "D"
                 /\ log[i].value \in InstancesOf("D")
        /\ \A a \in InstancesOf("A") :
              /\ Len(objs[a].args) = 2
              /\ objs[a].args[1] \in InstancesOf("D")
              /\ objs[a].args[2] \in InstancesOf("D")
        /\ ~DictHas(metrics, "Base")
        /\ CreationCount("D") = Cardinality(InstancesOf("D"))

\* D has been reached in the three ways: an A was constructed from it, and
\* get_bean(D) and get_bean(Base) have returned
C33_Witness ==
    /\ world = "shared"
    /\ InstancesOf("A") # {}
    /\ \E i, j \in LogIdx :
          /\ GetBeanOk(log[i]) /\ log[i].arg = "D"
          /\ GetBeanOk(log[j]) /\ log[j].arg = "Base"

\* the i-th finished call is a validate_configuration call that returned no
\* issues; no call finished while it ran, and every register_component and
\* clear_cache call of the run had finished before it began
ValidatedClean(i) ==
    /\ ValidateOk(log[i])
    /\ log[i].result = <<>>
    /\ log[i].since = i - 1
    /\ \A j \in LogIdx :
          log[j].op \in {"register_component", "clear_cache"} => j < i
    /\ \A t \in Threads : Idle(t) \/ Top(t).fn # "clear_cache"

\* C34 as stated, for programs whose constructors do not fail: a get_bean
\* call for a registered type that ends after validate_configuration has
\* returned no issues, the registry and the caches being the same for both,
\* returns an instance.
C34_ValidationAgrees ==
    W.raises = {} =>
        \A i, j \in LogIdx :
            (/\ i < j
             /\ ValidatedClean(i)
             /\ log[j].op = "get_bean"
             /\ DictHas(component_configs, log[j].arg))
            => GetBeanOk(log[j])

\* no register_component call has been made for class c at run time
NoRegistrationOf(c) == RegistrationsOf(c) = {}

\* a get_bean call that ended with an exception
GetBeanFailed(e) == e.op = "get_bean" /\ e.outcome # "ok"

\* C35: after a get_bean call has failed, every instance constructed since
\* that call began whose type is a singleton (truthy, never registered
\* again) is still the published instance of its type, is counted once and is
\* the only instance of its type, also after the call was retried; and the
\* type asked for, as long as no instance of it was constructed, has no
\* published instance.
C35_FailureKeepsDependencies ==
    \A i \in LogIdx :
        GetBeanFailed(log[i]) =>
            /\ \A o \in (log[i].since + 1)..Len(objs) :
                  LET c == objs[o].cls
                  IN (/\ DictGet(component_configs, c).scope = SINGLETON
                      /\ NoRegistrationOf(c)
                      /\ c \notin W.falsy)
                     => /\ DictGet(component_configs, c).instance = o
                        /\ CreationCount(c) = 1
                        /\ InstancesOf(c) = {o}
            /\ LET a == ResolvedType(log[i].arg)
               IN (DictHas(component_configs, a) /\ InstancesOf(a) = {})
                  => DictGet(component_configs, a).instance = None

\* get_bean(A) has failed twice with the error of A's constructor, the
\* singleton B that A depends on having been constructed in the first call
C35_Witness ==
    /\ world = "faulty"
    /\ NoRegistrationOf("B")
    /\ InstancesOf("A") = {}
    /\ \E i, j \in LogIdx :
          /\ i < j
          /\ GetBeanFailed(log[i]) /\ log[i].arg = "A" /\ log[i].outcome = "ValueError"
          /\ GetBeanFailed(log[j]) /\ log[j].arg = "A" /\ log[j].outcome = "ValueError"
          /\ log[i].since = 0
          /\ InstancesOf("B") = {1}

\* get_bean(A) has failed twice for the missing dependency U of A, the
\* singleton B that A depends on having been constructed in the first call
C35_WitnessMissing ==
    /\ world = "partial"
    /\ \E i, j \in LogIdx :
          /\ i < j
          /\ log[i].arg = "A" /\ log[i].outcome = "BeanNotFoundError"
          /\ log[j].arg = "A" /\ log[j].outcome = "BeanNotFoundError"
          /\ InstancesOf("B") = {1}

====
